---- MODULE Spec2Model ----
(***************************************************************************)
(* Model of the clip-extraction worker: handler.py (the serverless         *)
(* handler, its manifest loader, slugify, s3_key, ffmpeg_subclip) and      *)
(* utils.py (parse_timecode, load_clips_from_json).                        *)
(*                                                                         *)
(* Strings are sequences of one-character strings.  JSON values are        *)
(* records [t, n, s]: t is the JSON type, n the number, s the characters.  *)
(* Times are whole seconds; durations handed to the encoder are in         *)
(* hundredths of a second so that the 0.01 s floor is representable.       *)
(***************************************************************************)
EXTENDS Integers, Sequences, FiniteSets, TLC

\* ------------------------------------------------------------------ bounds
MaxClips == 2
MaxRuns == 2

\* --------------------------------------------------------------- characters
DigitChars == <<"0", "1", "2", "3", "4", "5", "6", "7", "8", "9">>

IsDigit(c) == \E i \in 1..10 : DigitChars[i] = c

DigitVal(c) == (CHOOSE i \in 1..10 : DigitChars[i] = c) - 1

IsSpace(c) == c = " "

AllDigits(s) == Len(s) > 0 /\ \A i \in 1..Len(s) : IsDigit(s[i])

RECURSIVE NatOf(_)
NatOf(s) == IF Len(s) = 0 THEN 0
            ELSE 10 * NatOf(SubSeq(s, 1, Len(s) - 1)) + DigitVal(s[Len(s)])

RECURSIVE DigitsOf(_)
DigitsOf(n) == IF n < 10 THEN <<DigitChars[n + 1]>>
               ELSE DigitsOf(n \div 10) \o <<DigitChars[(n % 10) + 1]>>

\* f"{idx:03d}": decimal digits, zero-padded to a minimum width of 3.
Fmt03(n) == LET d == DigitsOf(n)
            IN  IF Len(d) >= 3 THEN d
                ELSE IF Len(d) = 2 THEN <<"0">> \o d
                ELSE <<"0", "0">> \o d

\* str.strip(chars) for a one-character set `ch`.
RECURSIVE LStripCh(_, _)
LStripCh(s, ch) == IF Len(s) > 0 /\ s[1] = ch THEN LStripCh(Tail(s), ch) ELSE s

RECURSIVE RStripCh(_, _)
RStripCh(s, ch) == IF Len(s) > 0 /\ s[Len(s)] = ch
                   THEN RStripCh(SubSeq(s, 1, Len(s) - 1), ch) ELSE s

StripCh(s, ch) == RStripCh(LStripCh(s, ch), ch)

\* str.strip(): whitespace.
Strip(s) == StripCh(s, " ")

Take(s, n) == SubSeq(s, 1, IF Len(s) < n THEN Len(s) ELSE n)

Max(a, b) == IF a >= b THEN a ELSE b

\* -------------------------------------------------------------- JSON values
Null == [t |-> "null", n |-> 0, s |-> <<>>]
Num(k) == [t |-> "num", n |-> k, s |-> <<>>]
Str(cs) == [t |-> "str", n |-> 0, s |-> cs]

\* Python truthiness of a JSON scalar, as `or` uses it.
Truthy(v) == CASE v.t = "null" -> FALSE
               [] v.t = "num" -> v.n # 0
               [] v.t = "str" -> Len(v.s) > 0
               [] OTHER -> TRUE

\* Python `a or b`.
PyOr(a, b) == IF Truthy(a) THEN a ELSE b

IsNone(v) == v.t = "null"

\* float(x): a number as is; a string after stripping whitespace, with an
\* optional sign; anything else raises (ok = FALSE).
FloatOk(v) == CASE v.t = "num" -> TRUE
                [] v.t = "str" ->
                     LET s == Strip(v.s)
                         body == IF Len(s) > 0 /\ s[1] \in {"-", "+"} THEN Tail(s) ELSE s
                     IN  AllDigits(body)
                [] OTHER -> FALSE

FloatVal(v) == IF v.t = "num" THEN v.n
               ELSE LET s == Strip(v.s)
                    IN  IF s[1] = "-" THEN 0 - NatOf(Tail(s))
                        ELSE IF s[1] = "+" THEN NatOf(Tail(s))
                        ELSE NatOf(s)

\* --------------------------------------------------------------- slugify
LowerChars == <<"a", "b", "c", "d", "e", "f", "g", "h", "i", "j", "k", "l", "m",
                "n", "o", "p", "q", "r", "s", "t", "u", "v", "w", "x", "y", "z">>

UpperChars == <<"A", "B", "C", "D", "E", "F", "G", "H", "I", "J", "K", "L", "M",
                "N", "O", "P", "Q", "R", "S", "T", "U", "V", "W", "X", "Y", "Z">>

IsLower(c) == \E i \in 1..26 : LowerChars[i] = c

IsUpper(c) == \E i \in 1..26 : UpperChars[i] = c

\* str.lower() on one character.
LowerCh(c) == IF IsUpper(c) THEN LowerChars[CHOOSE i \in 1..26 : UpperChars[i] = c] ELSE c

Lower(s) == [i \in 1..Len(s) |-> LowerCh(s[i])]

\* The character class [a-zA-Z0-9\-_.] of slugify's first pattern.
SlugSafe(c) == IsLower(c) \/ IsUpper(c) \/ IsDigit(c) \/ c \in {"-", "_", "."}

RECURSIVE DropUnsafe(_)
DropUnsafe(s) == IF Len(s) > 0 /\ ~SlugSafe(s[1]) THEN DropUnsafe(Tail(s)) ELSE s

\* re.sub(r"[^a-zA-Z0-9\-_.]+", "-", s): each maximal unsafe run becomes one "-".
RECURSIVE SubUnsafe(_)
SubUnsafe(s) == IF Len(s) = 0 THEN <<>>
                ELSE IF SlugSafe(s[1]) THEN <<s[1]>> \o SubUnsafe(Tail(s))
                ELSE <<"-">> \o SubUnsafe(DropUnsafe(s))

\* re.sub(r"-{2,}", "-", s): each run of dashes becomes one "-".
RECURSIVE CollapseDashes(_)
CollapseDashes(s) == IF Len(s) = 0 THEN <<>>
                     ELSE IF s[1] = "-" THEN <<"-">> \o CollapseDashes(LStripCh(s, "-"))
                     ELSE <<s[1]>> \o CollapseDashes(Tail(s))

SlugMaxLen == 40

ClipWord == <<"c", "l", "i", "p">>

\* slugify(text, maxlen) for a string `text` (None and "" behave alike: text or "").
\* t1 is line 39, t2 line 40, t3 the slice of line 41; each is bound to its
\* value once.
slugify(text, maxlen) ==
    CHOOSE slug \in
        {Lower(IF Len(t3) = 0 THEN ClipWord ELSE t3) :
            t3 \in {Take(t2, maxlen) :
                t2 \in {StripCh(CollapseDashes(t1), "-") :
                    t1 \in {SubUnsafe(Strip(text))}}}} : TRUE

\* slugify(title) raises AttributeError when title is truthy but no string
\* ((text or "").strip() on a number).
SlugRaises(title) == Truthy(title) /\ title.t # "str"

\* handler: slug = slugify(title) if title else f"clip-{idx:03d}"
SlugOf(title, idx) == IF Truthy(title) THEN slugify(title.s, SlugMaxLen)
                      ELSE ClipWord \o <<"-">> \o Fmt03(idx)

Mp4Ext == <<".", "m", "p", "4">>

\* A plausible slip: the index left out of the name.
ClipFilename_noindex(slug, idx) == slug \o Mp4Ext

\* handler: f"{slug}-{idx:03d}.mp4"
ClipFilename(slug, idx) == slug \o <<"-">> \o Fmt03(idx) \o Mp4Ext

\* ---------------------------------------------------------------- s3_key
S3_PREFIX_BASE == <<"j", "o", "b", "s">>

ClipsDir == <<"c", "l", "i", "p", "s">>

\* p.strip("/").replace("\\", "/")
SafePart(p) == CHOOSE r \in {[i \in 1..Len(q) |-> IF q[i] = "\\" THEN "/" ELSE q[i]] :
                                q \in {StripCh(p, "/")}} : TRUE

RECURSIVE JoinSlash(_)
JoinSlash(parts) == IF Len(parts) = 0 THEN <<>>
                    ELSE IF Len(parts) = 1 THEN parts[1]
                    ELSE parts[1] \o <<"/">> \o JoinSlash(Tail(parts))

NonEmpty(p) == Len(p) > 0

\* s3_key(job_id, *parts): empty parts are left out, the rest sanitised.
s3_key(job_id, parts) ==
    CHOOSE key \in
        {JoinSlash(<<StripCh(S3_PREFIX_BASE, "/"), job_id>> \o safe) :
            safe \in {[i \in 1..Len(kept) |-> SafePart(kept[i])] :
                kept \in {SelectSeq(parts, NonEmpty)}}} : TRUE

ClipKey(job_id, name) == s3_key(job_id, <<ClipsDir, name>>)

\* --------------------------------------------------------- parse_timecode
RECURSIVE RemoveFirstDot(_)
RemoveFirstDot(s) == IF Len(s) = 0 THEN <<>>
                     ELSE IF s[1] = "." THEN Tail(s)
                     ELSE <<s[1]>> \o RemoveFirstDot(Tail(s))

\* The text before the first occurrence of `ch`.
RECURSIVE UpTo(_, _)
UpTo(s, ch) == IF Len(s) = 0 \/ s[1] = ch THEN <<>>
               ELSE <<s[1]>> \o UpTo(Tail(s), ch)

RECURSIVE SplitColon(_)
SplitColon(s) == LET g == UpTo(s, ":")
                 IN  IF Len(g) = Len(s) THEN <<g>>
                     ELSE <<g>> \o SplitColon(SubSeq(s, Len(g) + 2, Len(s)))

\* [0-5]?\d
IsSexagesimal(g) == \/ Len(g) = 1 /\ IsDigit(g[1])
                    \/ Len(g) = 2 /\ IsDigit(g[1]) /\ DigitVal(g[1]) <= 5 /\ IsDigit(g[2])

\* TIME_RE: ^(?:(\d+):)?([0-5]?\d):([0-5]?\d(?:\.\d+)?)$ on strings without
\* a fractional part (the inputs of this model carry whole seconds).
TimeReMatch(s) == LET g == SplitColon(s)
                  IN  \/ Len(g) = 2 /\ IsSexagesimal(g[1]) /\ IsSexagesimal(g[2])
                      \/ Len(g) = 3 /\ AllDigits(g[1]) /\ IsSexagesimal(g[2])
                                    /\ IsSexagesimal(g[3])

TimeReVal(s) == LET g == SplitColon(s)
                IN  IF Len(g) = 2 THEN NatOf(g[1]) * 60 + NatOf(g[2])
                    ELSE NatOf(g[1]) * 3600 + NatOf(g[2]) * 60 + NatOf(g[3])

\* parse_timecode(t) returns (TRUE) or raises ValueError (FALSE).  The value of
\* a plain number string is its whole-second part.
ParseOk(v) == CASE v.t = "num" -> TRUE
                [] v.t = "str" -> \/ AllDigits(RemoveFirstDot(Strip(v.s)))
                                  \/ TimeReMatch(Strip(v.s))
                [] OTHER -> FALSE

parse_timecode(v) == IF v.t = "num" THEN v.n
                     ELSE IF AllDigits(RemoveFirstDot(Strip(v.s)))
                          THEN NatOf(UpTo(Strip(v.s), "."))
                          ELSE TimeReVal(Strip(v.s))

\* ------------------------------------------------------ manifest documents
\* One manifest entry.  isdict = FALSE is any JSON value that is no object
\* (c.get raises AttributeError on it).  A key that is absent reads as Null,
\* as dict.get gives None.
Entry(start, end, duration, title) ==
    [isdict |-> TRUE, start |-> start, start_s |-> Null, from |-> Null,
     end |-> end, end_s |-> Null, to |-> Null, duration |-> duration,
     title |-> title, label |-> Null, text |-> Null, id |-> Null, quote |-> Null]

NonDictEntry == [Entry(Null, Null, Null, Null) EXCEPT !.isdict = FALSE]

\* A manifest document: t is the top-level JSON type.  For an object,
\* hasClips says whether the key "clips" is present and clipsT is the type of
\* its value.  items are the elements iteration yields: the entries of an
\* array, the characters of a string, the keys of an object.
Doc(t, hasClips, clipsT, items) ==
    [t |-> t, hasClips |-> hasClips, clipsT |-> clipsT, items |-> items]

ListDoc(items) == Doc("list", FALSE, "none", items)

ClipsDoc(items) == Doc("dict", TRUE, "list", items)

\* The outcome of a call: a value, or the class and text of what it raised.
Returned(w) == [ok |-> TRUE, cls |-> "", err |-> "", windows |-> w]

Raised(cls, err) == [ok |-> FALSE, cls |-> cls, err |-> err, windows |-> <<>>]

\* ------------------------------------------------ handler.load_clips_config
\* start_s = c.get("start") or c.get("start_s") or c.get("from")
CfgStart(c) == PyOr(PyOr(c.start, c.start_s), c.from)

\* end_s = c.get("end") or c.get("end_s") or c.get("to")
CfgEnd(c) == PyOr(PyOr(c.end, c.end_s), c.to)

\* Whether lines 95-99 take the duration branch.
CfgUsesDuration(c) == /\ IsNone(CfgStart(c)) \/ IsNone(CfgEnd(c))
                      /\ ~IsNone(CfgStart(c))
                      /\ ~IsNone(c.duration)

\* Lines 100-101: the entry is dropped.
CfgDropped(c) == \/ IsNone(CfgStart(c))
                 \/ IsNone(CfgEnd(c)) /\ ~CfgUsesDuration(c)

\* A float() of lines 99 and 103 raises ValueError.
CfgRaises(c) == IF CfgUsesDuration(c)
                THEN ~FloatOk(CfgStart(c)) \/ ~FloatOk(c.duration)
                ELSE ~CfgDropped(c) /\ (~FloatOk(CfgStart(c)) \/ ~FloatOk(CfgEnd(c)))

\* title = c.get("title") or c.get("label") or (c.get("text") or f"clip{idx:03d}")
CfgTitle(c, idx) == PyOr(PyOr(c.title, c.label), PyOr(c.text, Str(ClipWord \o Fmt03(idx))))

CfgWindow(c, idx) ==
    [idx |-> idx, title |-> CfgTitle(c, idx), start |-> FloatVal(CfgStart(c)),
     end |-> IF CfgUsesDuration(c) THEN FloatVal(CfgStart(c)) + FloatVal(c.duration)
             ELSE FloatVal(CfgEnd(c))]

\* The loop of lines 91-103 from entry idx on, norm being what is kept so far.
RECURSIVE CfgLoop(_, _, _)
CfgLoop(items, idx, norm) ==
    IF idx > Len(items) THEN Returned(norm)
    ELSE LET c == items[idx]
         IN  IF ~c.isdict THEN Raised("AttributeError", "object has no attribute 'get'")
             ELSE IF CfgRaises(c) THEN Raised("ValueError", "could not convert string to float")
             ELSE IF CfgDropped(c) THEN CfgLoop(items, idx + 1, norm)
             ELSE CfgLoop(items, idx + 1, Append(norm, CfgWindow(c, idx)))

\* Lines 83-89: the shapes the loader takes the entries from.
CfgShapeOk(obj) == (obj.t = "dict" /\ obj.hasClips) \/ obj.t = "list"

\* Whether enumerate(clips) can iterate at all (TypeError otherwise).
Iterable(obj) == obj.t = "list" \/ (obj.t = "dict" /\ obj.clipsT \in {"list", "str", "dict"})

\* Line 89: the text of the invalid-manifest error.
InvalidManifestText == "clips.json must be a list or an object with a 'clips' key"

\* load_clips_config, from the parsed document on (lines 83-106).
load_clips_config(obj) ==
    IF ~CfgShapeOk(obj)
    THEN Raised("ValueError", InvalidManifestText)
    ELSE IF ~Iterable(obj) THEN Raised("TypeError", "object is not iterable")
    ELSE LET r == CfgLoop(obj.items, 1, <<>>)
         IN  IF r.ok /\ Len(r.windows) = 0
             THEN Raised("ValueError", "No valid clips found in clips.json")
             ELSE r

\* ------------------------------------------------ utils.load_clips_from_json
\* Lines 52-56: a parse_timecode raises, or neither end nor duration is given.
JsonRaises(c) == \/ ~ParseOk(c.start)
                 \/ ~IsNone(c.end) /\ ~ParseOk(c.end)
                 \/ ~IsNone(c.duration) /\ ~ParseOk(c.duration)
                 \/ IsNone(c.end) /\ IsNone(c.duration)

\* Lines 57-58: end, or start + dur when no end is given.
JsonEnd(c) == IF IsNone(c.end) THEN parse_timecode(c.start) + parse_timecode(c.duration)
              ELSE parse_timecode(c.end)

\* Lines 59-65: the record appended, both times clamped at 0.
JsonWindow(c, idx) ==
    [id |-> PyOr(c.id, Str(ClipWord \o Fmt03(idx))),
     start |-> Max(0, parse_timecode(c.start)),
     end |-> Max(0, JsonEnd(c)),
     quote |-> IF IsNone(c.quote) THEN Str(<<>>) ELSE c.quote]

RECURSIVE JsonLoop(_, _, _)
JsonLoop(items, idx, out) ==
    IF idx > Len(items) THEN Returned(out)
    ELSE LET c == items[idx]
         IN  IF ~c.isdict THEN Raised("AttributeError", "object has no attribute 'get'")
             ELSE IF JsonRaises(c)
                  THEN Raised("ValueError", "unrecognized time, or neither end nor duration")
             ELSE JsonLoop(items, idx + 1, Append(out, JsonWindow(c, idx)))

\* load_clips_from_json (lines 43-66): no check that `out` is non-empty.
load_clips_from_json(obj) ==
    IF ~CfgShapeOk(obj)
    THEN Raised("ValueError", "clips JSON must be a list or have a 'clips' key.")
    ELSE IF ~Iterable(obj) THEN Raised("TypeError", "object is not iterable")
    ELSE JsonLoop(obj.items, 1, <<>>)

\* ------------------------------------------------------------------- state
VARIABLES
    pc,         \* where the handler is: start, load, source, encode, publish, done
    event,      \* the invocation payload
    manifest,   \* the manifest document the manifest URL serves
    windows,    \* what load_clips_config returned
    k,          \* position of the window loop, 1-based
    out_items,  \* the handler's out_items
    result,     \* what the invocation gave the caller
    log,        \* the external operations of this invocation, in order
    files,      \* local destination files written by the encoder (any invocation)
    store,      \* object-storage keys uploaded (any invocation)
    run,        \* number of this invocation of the same job
    prevOk,     \* the previous invocation returned ok
    loaded,     \* a loader called on its own: which one and what it gave
    named       \* windows named on their own: the windows, file names and keys

vars == <<pc, event, manifest, windows, k, out_items, result, log, files, store,
          run, prevOk, loaded, named>>

handlerVars == <<pc, event, manifest, windows, k, out_items, result, log, files,
                 store, run, prevOk>>

NoResult == [kind |-> "none", error |-> "", job_id |-> <<>>, clips |-> <<>>]

OkResult(job_id, clips) == [kind |-> "ok", error |-> "", job_id |-> job_id, clips |-> clips]

ErrorResult(msg) == [kind |-> "error", error |-> msg, job_id |-> <<>>, clips |-> <<>>]

\* An exception that left handler() uncaught.
Escaped(cls) == [kind |-> "raised", error |-> cls, job_id |-> <<>>, clips |-> <<>>]

NotLoaded == [name |-> "none", res |-> Returned(<<>>)]

NotNamed == [ws |-> <<>>, names |-> <<>>, keys |-> <<>>]

\* ------------------------------------------------------------ the handler
\* The exception classes the handler's calls raise; all derive from Exception.
ExceptionClasses == {"AttributeError", "ValueError", "TypeError", "RuntimeError",
                     "JSONDecodeError", "ClientError", "S3UploadFailedError",
                     "CalledProcessError"}

\* A plausible slip: only the encoder's error is handled.
CaughtAsException_none(cls) == FALSE

\* Line 165: except Exception.
CaughtAsException(cls) == cls \in ExceptionClasses

\* Lines 163-167: what the except clauses make of an exception.
HandlerCatch(cls, err) ==
    IF cls = "CalledProcessError" THEN ErrorResult("ffmpeg failed")
    ELSE IF CaughtAsException(cls) THEN ErrorResult(err)
    ELSE Escaped(cls)

\* The handler ends in its except clauses.
Fail(cls, err) == /\ pc' = "done"
                  /\ result' = HandlerCatch(cls, err)

\* The handler ends with a return statement.
Return(res) == /\ pc' = "done"
               /\ result' = res

Logged(op, idx, ok) == Append(log, [op |-> op, idx |-> idx, ok |-> ok])

StartsWith(s, p) == Len(s) >= Len(p) /\ SubSeq(s, 1, Len(p)) = p

HttpPrefix == <<"h", "t", "t", "p">>

S3Prefix == <<"s", "3", ":", "/", "/">>

\* A plausible slip: the job id taken unstripped.
JobIdOf_nostrip(data) == PyOr(data.job_id, Str(<<>>)).s

\* Line 121: (data.get("job_id") or "").strip(), for a job_id that is a string or falsy.
JobIdOf(data) == Strip(PyOr(data.job_id, Str(<<>>)).s)

\* Line 121 raises AttributeError: a truthy job_id that is no string.
JobIdRaises(data) == Truthy(data.job_id) /\ data.job_id.t # "str"

\* Lines 120-123.
Start ==
    /\ pc = "start"
    /\ IF event.isdict /\ event.input = "nondict"
       THEN Fail("AttributeError", "object has no attribute 'get'")
       ELSE IF event.isdict /\ event.input = "dict" /\ JobIdRaises(event)
       THEN Fail("AttributeError", "object has no attribute 'strip'")
       ELSE IF ~(event.isdict /\ event.input = "dict") \/ Len(JobIdOf(event)) = 0
       THEN Return(ErrorResult("job_id is required"))
       ELSE pc' = "load" /\ UNCHANGED result
    /\ UNCHANGED <<event, manifest, windows, k, out_items, log, files, store, run,
                   prevOk, loaded, named>>

\* Lines 72-81 and 133: fetch the manifest, then lines 83-106 normalise it.
\* `get` is what the network does; json.loads raises on a payload that is no JSON.
LoadManifest ==
    /\ pc = "load"
    /\ IF Truthy(event.clips_json_url) /\ event.clips_json_url.t # "str"
       THEN /\ Fail("AttributeError", "object has no attribute 'startswith'")
            /\ UNCHANGED <<windows, log>>
       ELSE \E get \in {"ok", "http_error", "presign_error"},
               r \in {load_clips_config(manifest)} :
            LET direct == /\ Truthy(event.clips_json_url)
                          /\ StartsWith(event.clips_json_url.s, HttpPrefix)
            IN  /\ get = "presign_error" => ~direct
                /\ CASE get = "presign_error" ->
                          /\ Fail("ClientError", "presign failed")
                          /\ UNCHANGED <<windows, log>>
                     [] get = "http_error" ->
                          /\ Fail("RuntimeError", "GET 404")
                          /\ log' = Logged("manifest_get", 0, FALSE)
                          /\ UNCHANGED windows
                     [] get = "ok" ->
                          /\ log' = Logged("manifest_get", 0, TRUE)
                          /\ IF manifest.t = "notjson"
                             THEN /\ Fail("JSONDecodeError", "Expecting value")
                                  /\ UNCHANGED windows
                             ELSE IF r.ok
                             THEN /\ windows' = r.windows
                                  /\ pc' = "source"
                                  /\ UNCHANGED result
                             ELSE /\ Fail(r.cls, r.err)
                                  /\ UNCHANGED windows
    /\ UNCHANGED <<event, manifest, k, out_items, files, store, run, prevOk, loaded, named>>

\* Line 126: data.get("video_url") or data.get("input_video_url")
VideoUrl(data) == PyOr(data.video_url, data.input_video_url)

\* Line 127: data.get("video_path") or data.get("input_video_local")
VideoPath(data) == PyOr(data.video_path, data.input_video_local)

\* ensure_local_video downloads (lines 57-68) rather than returning the path.
IsRemote(url) == StartsWith(url, HttpPrefix) \/ StartsWith(url, S3Prefix)

\* A plausible slip: the reference handed to the encoder as it is, nothing downloaded.
ResolveSource_nodownload ==
    /\ pc = "source"
    /\ IF Truthy(VideoUrl(event)) \/ Truthy(VideoPath(event))
       THEN /\ pc' = "encode"
            /\ k' = 1
            /\ UNCHANGED result
       ELSE Return(ErrorResult("Provide video_url (preferred) or video_path."))
    /\ UNCHANGED <<event, manifest, windows, k, out_items, log, files, store, run,
                   prevOk, loaded, named>>

\* Lines 136-141 with ensure_local_video (lines 56-69).
ResolveSource ==
    /\ pc = "source"
    /\ IF Truthy(VideoUrl(event))
       THEN IF VideoUrl(event).t # "str"
            THEN /\ Fail("AttributeError", "object has no attribute 'startswith'")
                 /\ UNCHANGED <<k, log>>
            ELSE IF IsRemote(VideoUrl(event).s)
            THEN \E get \in {"ok", "http_error", "presign_error"} :
                 /\ get = "presign_error" => ~StartsWith(VideoUrl(event).s, HttpPrefix)
                 /\ CASE get = "presign_error" ->
                           /\ Fail("ClientError", "presign failed")
                           /\ UNCHANGED <<k, log>>
                      [] get = "http_error" ->
                           /\ Fail("RuntimeError", "GET 403")
                           /\ log' = Logged("source_get", 0, FALSE)
                           /\ UNCHANGED k
                      [] get = "ok" ->
                           /\ log' = Logged("source_get", 0, TRUE)
                           /\ pc' = "encode"
                           /\ k' = 1
                           /\ UNCHANGED result
            ELSE /\ pc' = "encode"
                 /\ k' = 1
                 /\ UNCHANGED <<result, log>>
       ELSE IF Truthy(VideoPath(event))
       THEN /\ pc' = "encode"
            /\ k' = 1
            /\ UNCHANGED <<result, log>>
       ELSE /\ Return(ErrorResult("Provide video_url (preferred) or video_path."))
            /\ UNCHANGED <<k, log>>
    /\ UNCHANGED <<event, manifest, windows, out_items, files, store, run, prevOk,
                   loaded, named>>

\* ffmpeg_subclip line 44: max(0.01, end_s - start_s), in hundredths of a second.
ClipDuration(start_s, end_s) == Max(1, (end_s - start_s) * 100)

\* Lines 148-149: the name of the window's destination file.
WindowFile(w) == ClipFilename(SlugOf(w.title, w.idx), w.idx)

\* A plausible slip: an encoder failure is recorded and the loop goes on.
EncodeWindow_continue ==
    /\ pc = "encode"
    /\ k <= Len(windows)
    /\ \E w \in {windows[k]} :
          IF SlugRaises(w.title)
          THEN /\ Fail("AttributeError", "object has no attribute 'strip'")
               /\ UNCHANGED <<log, files, k>>
          ELSE \E exit \in {"ok", "nonzero"}, dst \in {WindowFile(w)} :
               /\ log' = Append(log, [op |-> "encode", idx |-> w.idx, ok |-> exit = "ok",
                                      ss |-> w.start, t |-> ClipDuration(w.start, w.end)])
               /\ IF exit = "ok"
                  THEN /\ files' = files \cup {dst}
                       /\ pc' = "publish"
                       /\ UNCHANGED <<result, k>>
                  ELSE /\ k' = k + 1
                       /\ UNCHANGED <<pc, result, files>>
    /\ UNCHANGED <<event, manifest, windows, out_items, store, run, prevOk, loaded, named>>

\* Lines 145-150: name the window and run the encoder on it.
EncodeWindow ==
    /\ pc = "encode"
    /\ k <= Len(windows)
    /\ \E w \in {windows[k]} :
          IF SlugRaises(w.title)
          THEN /\ Fail("AttributeError", "object has no attribute 'strip'")
               /\ UNCHANGED <<log, files>>
          ELSE \E exit \in {"ok", "nonzero"}, dst \in {WindowFile(w)} :
               /\ log' = Append(log, [op |-> "encode", idx |-> w.idx, ok |-> exit = "ok",
                                      ss |-> w.start, t |-> ClipDuration(w.start, w.end)])
               /\ IF exit = "ok"
                  THEN /\ files' = files \cup {dst}
                       /\ pc' = "publish"
                       /\ UNCHANGED result
                  ELSE /\ Fail("CalledProcessError", "returned non-zero exit status")
                       /\ UNCHANGED files
    /\ UNCHANGED <<event, manifest, windows, k, out_items, store, run, prevOk, loaded, named>>

OutputItem(w, key) == [index |-> w.idx, title |-> w.title, start |-> w.start,
                       end |-> w.end, key |-> key]

\* Lines 152-159: upload, presign, append the item; then the next window.
PublishWindow ==
    /\ pc = "publish"
    /\ \E w \in {windows[k]}, job_id \in {JobIdOf(event)} :
        \E name \in {WindowFile(w)} :
        \E key \in {ClipKey(job_id, name)} :
        \E put \in {"ok", "upload_error", "presign_error"} :
           CASE put = "upload_error" ->
                  /\ Fail("S3UploadFailedError", "upload failed")
                  /\ log' = Logged("upload", w.idx, FALSE)
                  /\ UNCHANGED <<k, out_items, store>>
             [] put = "presign_error" ->
                  /\ Fail("ClientError", "presign failed")
                  /\ log' = Logged("upload", w.idx, TRUE)
                            \o <<[op |-> "presign", idx |-> w.idx, ok |-> FALSE]>>
                  /\ store' = store \cup {key}
                  /\ UNCHANGED <<k, out_items>>
             [] put = "ok" ->
                  /\ log' = Logged("upload", w.idx, TRUE)
                            \o <<[op |-> "presign", idx |-> w.idx, ok |-> TRUE]>>
                  /\ store' = store \cup {key}
                  /\ out_items' = Append(out_items, OutputItem(w, key))
                  /\ k' = k + 1
                  /\ pc' = "encode"
                  /\ UNCHANGED result
    /\ UNCHANGED <<event, manifest, windows, files, run, prevOk, loaded, named>>

\* Line 161: the loop is over.
Finish ==
    /\ pc = "encode"
    /\ k > Len(windows)
    /\ Return(OkResult(JobIdOf(event), out_items))
    /\ UNCHANGED <<event, manifest, windows, k, out_items, log, files, store, run,
                   prevOk, loaded, named>>

\* The caller invokes the handler again with the same event; storage and the
\* temporary directory keep what earlier invocations wrote.
Rerun ==
    /\ pc = "done"
    /\ run < MaxRuns
    /\ pc' = "start"
    /\ windows' = <<>>
    /\ k' = 1
    /\ out_items' = <<>>
    /\ result' = NoResult
    /\ log' = <<>>
    /\ run' = run + 1
    /\ prevOk' = (result.kind = "ok")
    /\ UNCHANGED <<event, manifest, files, store, loaded, named>>

\* ------------------------------------------------------------------ inputs
SeqsUpTo(S, n) == UNION {[1..m -> S] : m \in 0..n}

Ev(job_id, video_url, video_path, clips_json_url, reextract) ==
    [isdict |-> TRUE, input |-> "dict", job_id |-> job_id, video_url |-> video_url,
     input_video_url |-> Null, video_path |-> video_path, input_video_local |-> Null,
     clips_json_url |-> clips_json_url, reextract |-> reextract]

J1 == Str(<<"j", "1">>)

HttpVideo == Str(<<"h", "t", "t", "p", ":", "/", "/", "v">>)

S3Video == Str(<<"s", "3", ":", "/", "/", "b", "/", "v">>)

LocalVideo == Str(<<"/", "v">>)

HttpManifest == Str(<<"h", "t", "t", "p", ":", "/", "/", "m">>)

\* Job ids: absent, empty, blank, padded, plain, and numbers that are no strings.
JobIds == {Null, Str(<<>>), Str(<<" ">>), Str(<<" ", " ">>), J1, Str(<<" ", "j", "1", " ">>),
           Num(0), Num(5)}

\* Events that vary the payload's shape, the job id and the source reference.
ShapeEvents ==
    {[Ev(J1, HttpVideo, Null, Null, FALSE) EXCEPT !.isdict = FALSE],
     [Ev(J1, HttpVideo, Null, Null, FALSE) EXCEPT !.input = "absent"],
     [Ev(J1, HttpVideo, Null, Null, FALSE) EXCEPT !.input = "nondict"]}
    \cup {Ev(j, v, Null, Null, FALSE) : j \in JobIds, v \in {HttpVideo, Null}}
    \cup {Ev(J1, v, p, m, FALSE) : v \in {Null, S3Video, LocalVideo, Num(7)},
                                   p \in {Null, LocalVideo},
                                   m \in {Null, HttpManifest, Num(7)}}
    \cup {[Ev(J1, Null, Null, Null, FALSE) EXCEPT !.input_video_url = HttpVideo],
          [Ev(J1, Null, Null, Null, FALSE) EXCEPT !.input_video_local = LocalVideo]}

\* Events of ordinary jobs, with and without forced re-extraction.
PlainEvents == {Ev(J1, v, Null, Null, f) : v \in {HttpVideo, LocalVideo}, f \in BOOLEAN}

TitleAB == Str(<<"A", " ", "b">>)

\* Entries of the handler's manifests: start 0 with an end, start and
\* duration, a titled window, one with neither end nor duration, one whose
\* title is a number, one whose start is no number, one that is no object.
HandlerEntries ==
    {Entry(Num(0), Num(10), Null, Null),
     Entry(Num(10), Null, Num(10), Null),
     Entry(Num(10), Num(20), Null, TitleAB),
     Entry(Num(20), Null, Null, Null),
     Entry(Num(20), Num(10), Null, Num(7)),
     Entry(Str(<<"x">>), Num(5), Null, Null),
     NonDictEntry}

\* Documents that are neither an array nor an object with a clips array.
OddDocs == {Doc("str", FALSE, "none", <<>>),
            Doc("num", FALSE, "none", <<>>),
            Doc("dict", FALSE, "none", <<>>),
            Doc("dict", TRUE, "num", <<>>),
            Doc("dict", TRUE, "null", <<>>),
            Doc("dict", TRUE, "str", <<NonDictEntry>>),
            Doc("dict", TRUE, "dict", <<>>)}

\* A payload that json.loads rejects.
NotJsonDoc == Doc("notjson", FALSE, "none", <<>>)

HandlerDocs == {ListDoc(items) : items \in SeqsUpTo(HandlerEntries, MaxClips)}
               \cup {ClipsDoc(items) : items \in SeqsUpTo(HandlerEntries, MaxClips)}
               \cup OddDocs \cup {NotJsonDoc}

\* The manifest of the spec's end-to-end example.
ExampleDoc == ListDoc(<<Entry(Num(0), Num(10), Null, Null),
                        Entry(Num(10), Null, Num(10), Null)>>)

Jobs == (ShapeEvents \X {ExampleDoc}) \cup (PlainEvents \X HandlerDocs)

Init ==
    /\ \E job \in Jobs : event = job[1] /\ manifest = job[2]
    /\ pc = "start"
    /\ windows = <<>>
    /\ k = 1
    /\ out_items = <<>>
    /\ result = NoResult
    /\ log = <<>>
    /\ files = {}
    /\ store = {}
    /\ run = 1
    /\ prevOk = FALSE
    /\ loaded = NotLoaded
    /\ named = NotNamed

\* One step of handler().
HandlerStep == Start \/ LoadManifest \/ ResolveSource \/ EncodeWindow \/ PublishWindow \/ Finish

Next ==
    \/ Start
    \/ LoadManifest
    \/ ResolveSource
    \/ EncodeWindow
    \/ PublishWindow
    \/ Finish
    \/ Rerun

Spec == Init /\ [][Next]_vars

\* One invocation on its own.  The handler is one sequential call: once
\* invoked it keeps running, each external call (download, encoder, upload)
\* returning or raising.
FairSpec == Init /\ [][HandlerStep]_vars /\ WF_vars(HandlerStep)

\* ------------------------------------------------- the two loaders, alone
Time105 == Str(<<"1", ":", "0", "5">>)

\* Entries by start, end and duration, and entries that use the aliases.
LoaderEntries ==
    {Entry(st, en, du, Null) : st \in {Null, Num(0), Num(10), Num(0 - 5), Time105},
                               en \in {Null, Num(5), Num(20)},
                               du \in {Null, Num(10), Num(0 - 20)}}
    \cup {Entry(Str(<<"x">>), Num(5), Null, Null),
          Entry(Str(<<" ", "7">>), Str(<<"0", ":", "3", "0">>), Null, Null),
          [Entry(Null, Num(5), Null, Null) EXCEPT !.from = Num(0)],
          [Entry(Num(0), Null, Null, Null) EXCEPT !.start_s = Num(10), !.to = Num(20)],
          [Entry(Num(10), Null, Null, Null) EXCEPT !.end_s = Num(0)],
          NonDictEntry}

LoaderDocs == {ListDoc(items) : items \in SeqsUpTo(LoaderEntries, MaxClips)}
              \cup {ClipsDoc(items) : items \in SeqsUpTo(LoaderEntries, 1)}
              \cup OddDocs

LoaderInit ==
    /\ manifest \in LoaderDocs
    /\ event = Ev(J1, Null, Null, Null, FALSE)
    /\ pc = "library"
    /\ windows = <<>>
    /\ k = 1
    /\ out_items = <<>>
    /\ result = NoResult
    /\ log = <<>>
    /\ files = {}
    /\ store = {}
    /\ run = 1
    /\ prevOk = FALSE
    /\ loaded = NotLoaded
    /\ named = NotNamed

\* handler.load_clips_config applied to the document.
RunLoadClipsConfig ==
    /\ pc = "library"
    /\ loaded.name = "none"
    /\ loaded' = [name |-> "load_clips_config", res |-> load_clips_config(manifest)]
    /\ UNCHANGED <<handlerVars, named>>

\* utils.load_clips_from_json applied to the document.
RunLoadClipsFromJson ==
    /\ pc = "library"
    /\ loaded.name = "none"
    /\ loaded' = [name |-> "load_clips_from_json", res |-> load_clips_from_json(manifest)]
    /\ UNCHANGED <<handlerVars, named>>

LoaderNext == RunLoadClipsConfig \/ RunLoadClipsFromJson

LoaderSpec == LoaderInit /\ [][LoaderNext]_vars

\* ------------------------------------------------- naming of two windows
MaxTitleLen == 3

TitleChars == {"a", "-", "1"}

\* A title one character longer than slugify keeps, ending in c.
LongTitle(c) == Str([i \in 1..SlugMaxLen |-> "a"] \o <<c>>)

NameTitles == {Str(t) : t \in SeqsUpTo(TitleChars, MaxTitleLen) \ {<<>>}}
              \cup {TitleAB, Str(<<"a", " ", "B">>), Str(<<"a", "!", "!", "b">>),
                    Str(<<"a", "-", "0", "0", "1">>), Str(<<" ">>), Str(<<"!">>),
                    LongTitle("b"), LongTitle("1")}

\* Positions of manifest entries, of three digits and of more.
NameIndices == {1, 11, 111, 1111}

\* What the loader's line 102 can give entry idx as title.
TitlesAt(idx) == NameTitles \cup {Str(ClipWord \o Fmt03(idx))}

NamesInit ==
    /\ \E i \in NameIndices, j \in NameIndices :
         /\ i < j
         /\ \E t \in TitlesAt(i), u \in TitlesAt(j) :
              windows = <<[idx |-> i, title |-> t, start |-> 0, end |-> 10],
                          [idx |-> j, title |-> u, start |-> 10, end |-> 20]>>
    /\ event \in {Ev(J1, LocalVideo, Null, Null, FALSE)}
    /\ manifest = ListDoc(<<>>)
    /\ pc = "naming"
    /\ k = 1
    /\ out_items = <<>>
    /\ result = NoResult
    /\ log = <<>>
    /\ files = {}
    /\ store = {}
    /\ run = 1
    /\ prevOk = FALSE
    /\ loaded = NotLoaded
    /\ named = NotNamed

\* Lines 148-152 for each window: its file name and its storage key.
NameWindows ==
    /\ pc = "naming"
    /\ named = NotNamed
    /\ named' = [ws |-> windows,
                 names |-> [i \in 1..Len(windows) |-> WindowFile(windows[i])],
                 keys |-> [i \in 1..Len(windows) |->
                             ClipKey(JobIdOf(event), WindowFile(windows[i]))]]
    /\ UNCHANGED <<handlerVars, loaded>>

NamesNext == NameWindows

NamesSpec == NamesInit /\ [][NamesNext]_vars

\* ------------------------------------------------------------------ claims
Positions(op) == {p \in 1..Len(log) : log[p].op = op}

\* C1: a job that ran to success and is run again with the same inputs and
\* reextract = false invokes the encoder for no window and reports every
\* window as skipped.
C1_RerunSkipsEveryWindow ==
    (run > 1 /\ prevOk /\ ~event.reextract)
        => /\ Positions("encode") = {}
           /\ (pc = "done" /\ result.kind = "ok")
                 => \A i \in 1..Len(result.clips) :
                       /\ "skipped" \in DOMAIN result.clips[i]
                       /\ result.clips[i].skipped

\* An entry with a numeric start and a numeric end or duration.
CompleteEntry(c) == /\ c.isdict
                    /\ c.start.t = "num"
                    /\ c.end.t = "num" \/ c.duration.t = "num"

\* C2: a successful job over a manifest of n entries, each with a numeric
\* start (0 included) and an end or a duration, returns n items whose indices
\* are 1..n in manifest order.
C2_OneItemPerEntry ==
    (/\ pc = "done"
     /\ result.kind = "ok"
     /\ manifest.t \in {"list", "dict"}
     /\ \A i \in 1..Len(manifest.items) : CompleteEntry(manifest.items[i]))
        => /\ Len(result.clips) = Len(manifest.items)
           /\ \A i \in 1..Len(result.clips) : result.clips[i].index = i

\* What the caller holds is a return value of one of the two documented forms.
StructuredResult ==
    /\ result.kind # "raised"
    /\ pc = "done" => \/ result.kind = "ok" /\ result.job_id = JobIdOf(event)
                                            /\ result.clips = out_items
                      \/ result.kind = "error" /\ result.error # ""

\* C3: every invocation ends by returning {ok, job_id, clips} or an object
\* with a non-empty error field: no exception leaves the handler, and every
\* invocation that starts reaches its return.
C3_AlwaysStructuredResult ==
    /\ []StructuredResult
    /\ (pc = "start") ~> (pc = "done")

\* C3 witness: an upload failed and the caller got an error object.
C3_Witness ==
    /\ pc = "done"
    /\ result.kind = "error"
    /\ \E p \in Positions("upload") : ~log[p].ok

\* The payload carries no job id, or an empty or blank one.
JobIdBlank(e) == \/ ~e.isdict
                 \/ e.input = "absent"
                 \/ /\ e.input = "dict"
                    /\ \/ IsNone(e.job_id)
                       \/ e.job_id.t = "str" /\ \A i \in 1..Len(e.job_id.s) : IsSpace(e.job_id.s[i])

\* C4: with job_id absent, empty or blank the handler goes from its start
\* straight to the job_id-required error, having fetched no manifest,
\* downloaded no source, invoked no encoder and uploaded nothing.
C4_MissingJobIdShortCircuits ==
    JobIdBlank(event)
        => /\ pc \in {"start", "done"}
           /\ pc = "done" => result = ErrorResult("job_id is required")
           /\ log = <<>>
           /\ files = {}
           /\ store = {}

\* C4 witness: a blank job id was refused.
C4_Witness ==
    /\ pc = "done"
    /\ event.isdict /\ event.input = "dict"
    /\ event.job_id = Str(<<" ", " ">>)
    /\ result.kind = "error"

\* The document is an array, or an object whose "clips" is an array.
AcceptedShape(obj) == obj.t = "list" \/ (obj.t = "dict" /\ obj.hasClips /\ obj.clipsT = "list")

\* C5: a manifest (valid JSON, fetched) that is neither an array nor an object
\* with a clips array fails the job with the invalid-manifest error, and no
\* source is downloaded, no encoder invoked and nothing uploaded.
C5_BadShapeIsInvalidManifest ==
    (/\ pc = "done"
     /\ Positions("manifest_get") # {}
     /\ \A p \in Positions("manifest_get") : log[p].ok
     /\ manifest.t # "notjson"
     /\ ~AcceptedShape(manifest))
        => /\ result = ErrorResult(InvalidManifestText)
           /\ Positions("source_get") \cup Positions("encode") \cup Positions("upload") = {}

\* C6: neither loader returns an empty sequence.
C6_LoaderNeverReturnsEmpty ==
    (loaded.name # "none" /\ loaded.res.ok) => Len(loaded.res.windows) > 0

\* C8: every window either loader returns has start >= 0 and end >= start.
C8_WindowsWellOrdered ==
    (loaded.name # "none" /\ loaded.res.ok)
        => \A i \in 1..Len(loaded.res.windows) :
              /\ loaded.res.windows[i].start >= 0
              /\ loaded.res.windows[i].end >= loaded.res.windows[i].start

\* C7: within one job two distinct windows never share an output file name
\* or a storage key, whatever their titles and indices.
C7_NamesCollisionFree ==
    named # NotNamed
        => \A i \in 1..Len(named.ws), j \in 1..Len(named.ws) :
              i # j => /\ named.names[i] # named.names[j]
                       /\ named.keys[i] # named.keys[j]

\* C7 witness: two windows were named whose titles differ but give the same
\* slug, and that slug ends in a digit.
C7_Witness ==
    /\ named # NotNamed
    /\ named.ws[1].title # named.ws[2].title
    /\ SlugOf(named.ws[1].title, named.ws[1].idx) = SlugOf(named.ws[2].title, named.ws[2].idx)
    /\ LET slug == SlugOf(named.ws[1].title, named.ws[1].idx)
       IN  IsDigit(slug[Len(slug)])

PerWindowOps == {"encode", "upload", "presign"}

\* C9: when the encoding or the publishing of a window fails, that failure is
\* the last thing the invocation does (no later window is encoded or
\* published), and the caller gets an error object, not a clips list.
C9_FailureAbortsRemaining ==
    \A p \in 1..Len(log) :
        (log[p].op \in PerWindowOps /\ ~log[p].ok)
            => /\ p = Len(log)
               /\ pc = "done"
               /\ result.kind = "error"
               /\ result.clips = <<>>

\* C9 witness: the first of several windows failed to encode and the job ended.
C9_Witness ==
    /\ pc = "done"
    /\ Len(windows) >= 2
    /\ \E p \in Positions("encode") : ~log[p].ok /\ log[p].idx = windows[1].idx

\* The source reference is one ensure_local_video downloads.
RemoteSource(e) == /\ Truthy(VideoUrl(e))
                   /\ VideoUrl(e).t = "str"
                   /\ IsRemote(VideoUrl(e).s)

\* C10: the manifest download, and the source download when there is one, are
\* over before the first encoder invocation and none follows it; the encoder
\* runs on the windows one at a time in manifest order, the upload and presign
\* of the previous window having completed just before.
C10_DownloadsThenSequentialWindows ==
    \A p \in Positions("encode") :
        LET j == Cardinality({q \in Positions("encode") : q <= p})
        IN  /\ \E q \in 1..(p - 1) : log[q].op = "manifest_get" /\ log[q].ok
            /\ RemoteSource(event)
                  => \E q \in 1..(p - 1) : log[q].op = "source_get" /\ log[q].ok
            /\ \A q \in (p + 1)..Len(log) : log[q].op \notin {"manifest_get", "source_get"}
            /\ j <= Len(windows)
            /\ log[p].idx = windows[j].idx
            /\ j > 1 => /\ windows[j - 1].idx < windows[j].idx
                        /\ log[p - 2] = [op |-> "upload", idx |-> windows[j - 1].idx, ok |-> TRUE]
                        /\ log[p - 1] = [op |-> "presign", idx |-> windows[j - 1].idx, ok |-> TRUE]

\* C10 witness: a downloaded source and two windows encoded.
C10_Witness ==
    /\ Positions("source_get") # {}
    /\ Cardinality(Positions("encode")) >= 2
====
